---- MODULE Spec2Model ----
(***************************************************************************)
(* A model of the raster-to-polyline vectorizer (vectorizer.py).           *)
(*                                                                         *)
(* vectorize() is modelled as a sequential state machine whose program     *)
(* counter pc walks through the stages of the function: classification of  *)
(* the pixels, the optional diagnostic picture, the optional spatial grid, *)
(* the tracer (seed search / walking), the post-processing passes, the     *)
(* calibration line and the export.  filter() and the auto-reduction pass  *)
(* are operators, computed the way the code computes them.                 *)
(*                                                                         *)
(* Coordinates are pairs <<x, y>> of integers.  The floating-point values  *)
(* produced by filter() are fixed-point numbers with FP units per pixel    *)
(* and are written <<x, y, FP>> so that they never compare equal to an     *)
(* integer coordinate pair.                                                *)
(***************************************************************************)
EXTENDS Integers, Sequences, FiniteSets, TLC

\* ---------------------------------------------------------------- bounds
MaxW == 3
MaxH == 3
MaxBright == 3
MaxCell == 3
MaxEnum == 3
FP == 1000
RMaxX == 4
RMaxY == 1
RMaxLen == 4
FMaxCoord == 1
FMaxLen == 3

\* ------------------------------------------------------ program constants
\* Dirs: E, NE, N, NW, W, SW, S, SE
DIRECTIONS == << <<1, 0>>, <<1, -1>>, <<0, -1>>, <<-1, -1>>,
                 <<-1, 0>>, <<-1, 1>>, <<0, 1>>, <<1, 1>> >>
Threshold == 128
DefaultMass == 10
DefaultInterpoints == 6
DefaultFriction == <<6, 10>>
DiagColor == <<255, 0, 255>>

VARIABLES
    \* arguments of vectorize()
    size, px, method, invertpixels, diagnostic, expandsingles, autoreduce,
    filtering, splittogrid, calibrator, outputfile,
    \* locals of vectorize()
    pc, eligiblelist, eligibles, grid, masterlines, direction, origin,
    currentline,
    \* what the caller and the serializer see
    outcome, svgcalls,
    \* history: the caller's image, the set the tracer started from, the
    \* lines as traced, whether a seed search fell back to the full set, and
    \* whether a seed search found its bucket without the nearest point
    px0, eligibles0, traced, fellback, localmiss,
    \* a second tracer run over the same eligible set
    twin,
    \* the auto-reduction pass applied to one line
    rline, rhist,
    \* one call of filter()
    POINTSLIST, MASS, INTERPOINTS, FRICTION, filtered, fpc, fin0

args == <<size, method, invertpixels, diagnostic, expandsingles, autoreduce,
          filtering, splittogrid, calibrator, outputfile>>
tracer == <<eligibles, grid, masterlines, direction, origin, currentline>>
history == <<px0, eligibles0, traced, fellback, localmiss>>
reducer == <<rline, rhist>>
filterer == <<POINTSLIST, MASS, INTERPOINTS, FRICTION, filtered, fpc, fin0>>
vars == <<args, px, pc, eligiblelist, tracer, outcome, svgcalls, history,
          twin, reducer, filterer>>

\* ---------------------------------------------------------------- helpers
Range(s) == {s[i] : i \in DOMAIN s}
Last(s) == s[Len(s)]
Abs(n) == IF n < 0 THEN -n ELSE n

RECURSIVE SumLen(_)
SumLen(ls) == IF ls = <<>> THEN 0 ELSE Len(Head(ls)) + SumLen(Tail(ls))

RECURSIVE SumSeq(_)
SumSeq(s) == IF s = <<>> THEN 0 ELSE Head(s) + SumSeq(Tail(s))

\* the coordinates visited by  for cy in range(y0, y1+1): for cx in range(x0, x1+1)
Scan(x0, x1, y0, y1) ==
    LET w == x1 - x0 + 1
        h == y1 - y0 + 1
        n == IF w <= 0 \/ h <= 0 THEN 0 ELSE w * h
    IN  [i \in 1..n |-> <<x0 + ((i - 1) % w), y0 + ((i - 1) \div w)>>]

\* ------------------------------------------------- eligibility classifier
pxeligible(value, invert) ==
    LET out == IF Len(value) = 1 THEN value[1] >= Threshold
               ELSE (SumSeq(value) \div 3) >= Threshold
    IN  out # invert

FillHit(p, c, inv) == IF pxeligible(p[c], inv) THEN <<c>> ELSE <<>>

BoundaryHit(p, c, inv) ==
    IF ~pxeligible(p[c], inv)
       /\ (\/ pxeligible(p[<<c[1] - 1, c[2]>>], inv)
           \/ pxeligible(p[<<c[1] + 1, c[2]>>], inv)
           \/ pxeligible(p[<<c[1], c[2] - 1>>], inv)
           \/ pxeligible(p[<<c[1], c[2] + 1>>], inv))
    THEN <<c>> ELSE <<>>

OutlineHitAll(p, c, inv) ==
    IF pxeligible(p[c], inv)
       /\ (/\ ~pxeligible(p[<<c[1] - 1, c[2]>>], inv)
           /\ ~pxeligible(p[<<c[1] + 1, c[2]>>], inv)
           /\ ~pxeligible(p[<<c[1], c[2] - 1>>], inv)
           /\ ~pxeligible(p[<<c[1], c[2] + 1>>], inv))
    THEN <<c>> ELSE <<>>

OutlineHit(p, c, inv) ==
    IF pxeligible(p[c], inv)
       /\ (\/ ~pxeligible(p[<<c[1] - 1, c[2]>>], inv)
           \/ ~pxeligible(p[<<c[1] + 1, c[2]>>], inv)
           \/ ~pxeligible(p[<<c[1], c[2] - 1>>], inv)
           \/ ~pxeligible(p[<<c[1], c[2] + 1>>], inv))
    THEN <<c>> ELSE <<>>

RECURSIVE FillPass(_, _, _)
FillPass(cs, p, inv) ==
    IF cs = <<>> THEN <<>>
    ELSE FillHit(p, Head(cs), inv) \o FillPass(Tail(cs), p, inv)

RECURSIVE ContourPass(_, _, _, _)
ContourPass(cs, p, inv, m) ==
    IF cs = <<>> THEN <<>>
    ELSE (IF "b" \in m THEN BoundaryHit(p, Head(cs), inv) ELSE <<>>)
         \o (IF "o" \in m THEN OutlineHit(p, Head(cs), inv) ELSE <<>>)
         \o ContourPass(Tail(cs), p, inv, m)

FindEligibles(sz, p, inv, m) ==
    (IF "f" \in m
     THEN FillPass(Scan(0, sz[1] - 1, 0, sz[2] - 1), p, inv) ELSE <<>>)
    \o
    (IF "o" \in m \/ "b" \in m
     THEN ContourPass(Scan(1, sz[1] - 2, 1, sz[2] - 2), p, inv, m) ELSE <<>>)

\* ------------------------------------------------------------ spatial grid
HasGrid(sg) == sg # <<>>

BuildGrid(sz, sg, list) ==
    LET hgrid == (sz[1] \div sg[1]) + 1
        vgrid == (sz[2] \div sg[2]) + 1
    IN  [k \in (0..(vgrid - 1)) \X (0..(hgrid - 1)) |->
            {c \in Range(list) : c[2] \div sg[2] = k[1] /\ c[1] \div sg[1] = k[2]}]

BucketOf(sg, c) == <<c[2] \div sg[2], c[1] \div sg[1]>>

GridKeep(G, sg, c) == G

\* grid[c[1] // splittogrid[1]][c[0] // splittogrid[0]].remove(c)
GridRemove(G, sg, c) == [G EXCEPT ![BucketOf(sg, c)] = @ \ {c}]

\* ------------------------------------------------------ nearest-point search
\* the orders in which a set may be enumerated: every order for a small set,
\* the two raster orders for a larger one
Perms(S) ==
    {q \in [1..Cardinality(S) -> S] : \A i, j \in DOMAIN q : q[i] = q[j] => i = j}

RasterLess(a, b) == a[2] < b[2] \/ (a[2] = b[2] /\ a[1] < b[1])

RasterSeq(S) ==
    [i \in 1..Cardinality(S) |->
        CHOOSE a \in S : Cardinality({b \in S : RasterLess(b, a)}) = i - 1]

Reverse(s) == [i \in 1..Len(s) |-> s[Len(s) + 1 - i]]

Enumerations(S) ==
    IF Cardinality(S) <= MaxEnum THEN Perms(S)
    ELSE {q \o <<>> : q \in {RasterSeq(S), Reverse(RasterSeq(S))}}

Triple(o, k) == <<Abs(o[1] - k[1]) + Abs(o[2] - k[2]), k[1], k[2]>>

TripleLessByDistance(a, b) == a[1] < b[1]

TripleLess(a, b) ==
    \/ a[1] < b[1]
    \/ a[1] = b[1] /\ a[2] < b[2]
    \/ a[1] = b[1] /\ a[2] = b[2] /\ a[3] < b[3]

\* sorted(): the stable ascending sort; element j of s goes to the place given
\* by the number of elements that are smaller, or equal and in front of it
Rank(s, j) ==
    Cardinality({k \in 1..Len(s) :
                    \/ TripleLess(s[k], s[j])
                    \/ (k < j /\ ~TripleLess(s[j], s[k]))}) + 1

sorted(s) ==
    [i \in 1..Len(s) |-> s[CHOOSE j \in 1..Len(s) : Rank(s, j) = i]]

Distances(o, order) == sorted([i \in 1..Len(order) |-> Triple(o, order[i])])

\* distances[0][1:3]
StartOf(distances) == <<distances[1][2], distances[1][3]>>

StartLast(distances) == <<Last(distances)[2], Last(distances)[3]>>

StartSecond(distances) ==
    IF Len(distances) > 1 THEN <<distances[2][2], distances[2][3]>>
    ELSE <<distances[1][2], distances[1][3]>>

PlainStart(distances) == StartOf(distances)

GridStart(distances) == StartOf(distances)

KeepStart(E, start) == E

\* eligibles.remove(start)
RemoveStart(E, start) == E \ {start}

\* eligibles.remove(checkpixel)
KeepStep(E, checkpixel) == E

RemoveStep(E, checkpixel) == E \ {checkpixel}

\* while eligibles:
MoreThanOneLeft(E) == Cardinality(E) > 1

LoopGuard(E) == E # {}

\* if not eligibles: quit()
NeverNothingToDo(list) == FALSE

NothingToDo(list) == list = <<>>

FallbackStart(distances) == StartOf(distances)

OriginOf(ML) == IF ML # <<>> THEN Last(Last(ML)) ELSE <<0, 0>>

AllCandidates(E, G, sg, ML) == E

\* the set the first list comprehension of a seed search enumerates
SeedCandidates(E, G, sg, ML) ==
    IF ~HasGrid(sg) THEN E
    ELSE IF BucketOf(sg, OriginOf(ML)) \in DOMAIN G
         THEN G[BucketOf(sg, OriginOf(ML))] ELSE {}

\* one seed search: lines 107-135
SeedSearchResult(E, G, sg, ML, order, order2) ==
    LET o == OriginOf(ML)
        indexed == HasGrid(sg)
        badindex == indexed /\ BucketOf(sg, o) \notin DOMAIN G
        local == Distances(o, order)
        fall == indexed /\ local = <<>>
        start == IF ~indexed THEN PlainStart(local)
                 ELSE IF local # <<>> THEN GridStart(local)
                 ELSE FallbackStart(Distances(o, order2))
        keyerror == start \notin E
                    \/ (indexed /\ BucketOf(sg, start) \notin DOMAIN G)
                    \/ (indexed /\ BucketOf(sg, start) \in DOMAIN G
                        /\ start \notin G[BucketOf(sg, start)])
    IN  IF badindex
        THEN [error |-> "IndexError", origin |-> o, fellback |-> FALSE,
              eligibles |-> E, grid |-> G, currentline |-> <<>>]
        ELSE IF keyerror
        THEN [error |-> "KeyError", origin |-> o, fellback |-> fall,
              eligibles |-> E, grid |-> G, currentline |-> <<start>>]
        ELSE [error |-> "", origin |-> o, fellback |-> fall,
              eligibles |-> RemoveStart(E, start),
              grid |-> IF indexed THEN GridRemove(G, sg, start) ELSE G,
              currentline |-> <<start>>]

\* ------------------------------------------------------------------ walking
CheckPixelFar(cur, checkdir) ==
    <<cur[1] + 2 * DIRECTIONS[checkdir + 1][1],
      cur[2] + 2 * DIRECTIONS[checkdir + 1][2]>>

\* checkpixel = (currentpixel[0] + DIRECTIONS[checkdir][0], ...)
CheckPixel(cur, checkdir) ==
    <<cur[1] + DIRECTIONS[checkdir + 1][1], cur[2] + DIRECTIONS[checkdir + 1][2]>>

\* the first k in 0..7 whose pixel, in direction (dir + k) % 8, is eligible;
\* 8 when there is none
RECURSIVE FirstHit(_, _, _, _)
FirstHit(cur, dir, E, k) ==
    IF k = 8 THEN 8
    ELSE IF CheckPixel(cur, (dir + k) % 8) \in E THEN k
         ELSE FirstHit(cur, dir, E, k + 1)

SameDirection(checkdir) == checkdir

\* direction = (checkdir + 4) % 8
NewDirection(checkdir) == (checkdir + 4) % 8

\* one pass of the inner  while True  loop: lines 137-159
WalkResult(E, G, sg, CL, dir) ==
    LET cur == Last(CL)
        k == FirstHit(cur, dir, E, 0)
        checkdir == (dir + k) % 8
        checkpixel == CheckPixel(cur, checkdir)
        keyerror == HasGrid(sg) /\ k < 8
                    /\ (\/ BucketOf(sg, checkpixel) \notin DOMAIN G
                        \/ checkpixel \notin G[BucketOf(sg, checkpixel)])
    IN  IF k = 8
        THEN [continuing |-> FALSE, error |-> "", eligibles |-> E, grid |-> G,
              currentline |-> CL, direction |-> dir]
        ELSE IF keyerror
        THEN [continuing |-> TRUE, error |-> "KeyError",
              eligibles |-> RemoveStep(E, checkpixel), grid |-> G,
              currentline |-> CL, direction |-> dir]
        ELSE [continuing |-> TRUE, error |-> "",
              eligibles |-> RemoveStep(E, checkpixel),
              grid |-> IF HasGrid(sg) THEN GridRemove(G, sg, checkpixel) ELSE G,
              currentline |-> Append(CL, checkpixel),
              direction |-> NewDirection(checkdir)]

\* ------------------------------------------------------------ post-processing
ExpandLineY(line, d) ==
    IF Len(line) = 1
    THEN << <<line[1][1], line[1][2] - d>>, <<line[1][1], line[1][2] + d>> >>
    ELSE line

ExpandLine(line, d) ==
    IF Len(line) = 1
    THEN << <<line[1][1] - d, line[1][2]>>, <<line[1][1] + d, line[1][2]>> >>
    ELSE line

\* deltas, with the (0, 0) put in front: deltas[p] of the code is Deltas(line)[p + 1]
Deltas(line) ==
    <<<<0, 0>>>> \o [p \in 1..(Len(line) - 1) |->
                       <<line[p + 1][1] - line[p][1], line[p + 1][2] - line[p][2]>>]

SurplusInverted(line) ==
    LET deltas == Deltas(line)
    IN  SelectSeq([i \in 1..(Len(deltas) - 2) |-> i],
                  LAMBDA p : deltas[p + 1] # deltas[p + 2])

\* the surplus indices (of the code, counted from 0), in ascending order
Surplus(line) ==
    LET deltas == Deltas(line)
    IN  SelectSeq([i \in 1..(Len(deltas) - 2) |-> i],
                  LAMBDA p : deltas[p + 1] = deltas[p + 2])

\* del line[pid]
DelAt(line, pid) ==
    [i \in 1..(Len(line) - 1) |-> IF i <= pid THEN line[i] ELSE line[i + 1]]

RECURSIVE DelAllForward(_, _)
DelAllForward(line, surplus) ==
    IF surplus = <<>> THEN line
    ELSE DelAllForward(DelAt(line, Head(surplus)), Tail(surplus))

\* for pid in surplus (sorted in reverse): del line[pid]
RECURSIVE DelAll(_, _)
DelAll(line, surplus) ==
    IF surplus = <<>> THEN line
    ELSE DelAll(DelAt(line, Last(surplus)), SubSeq(surplus, 1, Len(surplus) - 1))

ReduceLine(line) ==
    IF Len(line) <= 2 THEN line ELSE DelAll(line, Surplus(line))

\* ------------------------------------------------------------------- filter()
\* one sub-step of the mover towards (ix, iy); st = <<mover, speed>>, fixed point
FilterSubStep(st, ix, iy, mass, friction) ==
    LET dx == ((ix * FP) - st[1][1]) \div mass
        dy == ((iy * FP) - st[1][2]) \div mass
        sx == ((st[2][1] + dx) * friction[1]) \div friction[2]
        sy == ((st[2][2] + dy) * friction[1]) \div friction[2]
    IN  << <<st[1][1] + sx, st[1][2] + sy>>, <<sx, sy>> >>

\* the inner loop: for step in range(INTERPOINTS); r = <<state, filtered>>
RECURSIVE FilterInner(_, _, _, _, _, _)
FilterInner(r, ix, iy, mass, friction, steps) ==
    IF steps <= 0 THEN r
    ELSE LET st == FilterSubStep(r[1], ix, iy, mass, friction)
         IN  FilterInner(<<st, Append(r[2], <<st[1][1], st[1][2], FP>>)>>,
                         ix, iy, mass, friction, steps - 1)

\* the outer loop: for ix, iy in POINTSLIST[1:]
RECURSIVE FilterOuter(_, _, _, _, _)
FilterOuter(r, points, mass, friction, steps) ==
    IF points = <<>> THEN r
    ELSE FilterOuter(FilterInner(r, Head(points)[1], Head(points)[2],
                                 mass, friction, steps),
                     Tail(points), mass, friction, steps)

FilterRaises(points, mass, steps) ==
    IF points = <<>> THEN "IndexError"
    ELSE IF mass = 0 /\ Len(points) > 1 /\ steps > 0 THEN "ZeroDivisionError"
    ELSE ""

FilterMoverFinal(points, mass, steps, friction) ==
    LET mover == <<points[1][1] * FP, points[1][2] * FP>>
        r == FilterOuter(<< <<mover, <<0, 0>>>>, <<>> >>, Tail(points),
                         mass, friction, steps)
    IN  Append(r[2], <<r[1][1][1], r[1][1][2], FP>>)

filter(points, mass, steps, friction) ==
    LET mover == <<points[1][1] * FP, points[1][2] * FP>>
        r == FilterOuter(<< <<mover, <<0, 0>>>>, <<>> >>, Tail(points),
                         mass, friction, steps)
    IN  Append(r[2], Last(points))

\* ------------------------------------------------------------- initial states
Cells(sz) == (0..(sz[1] - 1)) \X (0..(sz[2] - 1))

DarkValue(mode) == IF mode = "L" THEN <<127>> ELSE <<127, 128, 128>>
BrightValue(mode) == IF mode = "L" THEN <<128>> ELSE <<128, 128, 128>>

ImageOf(sz, bright, mode) ==
    [c \in Cells(sz) |-> IF c \in bright THEN BrightValue(mode) ELSE DarkValue(mode)]

Images(sz, modes) ==
    {ImageOf(sz, b, m) : b \in {s \in SUBSET Cells(sz) : Cardinality(s) <= MaxBright},
                         m \in modes}

Methods == SUBSET {"f", "o", "b"}

GridOptions == {<<>>} \cup ((1..MaxCell) \X (1..MaxCell))

NoTwin == [pc |-> "off"]

IdleReducer == rline = <<>> /\ rhist = <<>>

IdleFilter ==
    /\ POINTSLIST = <<>> /\ MASS = 0 /\ INTERPOINTS = 0 /\ FRICTION = <<0, 1>>
    /\ filtered = <<>> /\ fpc = "off" /\ fin0 = <<>>

Locals ==
    /\ eligiblelist = <<>>
    /\ eligibles = {}
    /\ grid = <<>>
    /\ masterlines = <<>>
    /\ direction = 0
    /\ origin = <<0, 0>>
    /\ currentline = <<>>
    /\ outcome = "running"
    /\ svgcalls = <<>>
    /\ px0 = px
    /\ eligibles0 = {}
    /\ traced = <<>>
    /\ fellback = FALSE
    /\ localmiss = FALSE

\* the tracer under every method, polarity, pixel format and grid; the
\* post-processing passes as they are by default
Init ==
    /\ size = <<MaxW, MaxH>>
    /\ px \in Images(size, {"L", "RGB"})
    /\ method \in Methods
    /\ invertpixels \in BOOLEAN
    /\ diagnostic = FALSE
    /\ expandsingles = 1
    /\ autoreduce = TRUE
    /\ filtering = FALSE
    /\ splittogrid \in GridOptions
    /\ calibrator = 1
    /\ outputfile = TRUE
    /\ pc = "classify"
    /\ Locals
    /\ twin = NoTwin
    /\ IdleReducer
    /\ IdleFilter

\* the whole pipeline under every combination of its switches, on filled
\* RGB images
PipelineInit ==
    /\ size = <<MaxW, MaxH>>
    /\ px \in Images(size, {"RGB"})
    /\ method = {"f"}
    /\ invertpixels \in BOOLEAN
    /\ diagnostic \in BOOLEAN
    /\ expandsingles \in {0, 1}
    /\ autoreduce \in BOOLEAN
    /\ filtering \in BOOLEAN
    /\ splittogrid = <<>>
    /\ calibrator \in {0, 1}
    /\ outputfile \in BOOLEAN
    /\ pc = "classify"
    /\ Locals
    /\ twin = NoTwin
    /\ IdleReducer
    /\ IdleFilter

\* two tracer runs over the same eligible set, the second one either with the
\* grid of the first or without a grid
PairInit ==
    /\ size = <<MaxW, MaxH>>
    /\ px \in Images(size, {"L"})
    /\ method = {"f"}
    /\ invertpixels \in BOOLEAN
    /\ diagnostic = FALSE
    /\ expandsingles = 1
    /\ autoreduce = TRUE
    /\ filtering = FALSE
    /\ splittogrid \in GridOptions
    /\ calibrator = 1
    /\ outputfile = TRUE
    /\ pc = "classify"
    /\ Locals
    /\ twin \in {[pc |-> "wait", splittogrid |-> g] : g \in {<<>>, splittogrid}}
    /\ IdleReducer
    /\ IdleFilter

\* the tracer alone matters for termination: filled images, with and without
\* the grid
FairInit ==
    /\ size = <<MaxW, MaxH>>
    /\ px \in Images(size, {"L"})
    /\ method = {"f"}
    /\ invertpixels \in BOOLEAN
    /\ diagnostic = FALSE
    /\ expandsingles = 1
    /\ autoreduce = TRUE
    /\ filtering = FALSE
    /\ splittogrid \in {<<>>, <<MaxCell, MaxCell>>}
    /\ calibrator = 1
    /\ outputfile = TRUE
    /\ pc = "classify"
    /\ Locals
    /\ twin = NoTwin
    /\ IdleReducer
    /\ IdleFilter

IdleMain ==
    /\ size = <<0, 0>>
    /\ px = <<>>
    /\ method = {}
    /\ invertpixels = FALSE
    /\ diagnostic = FALSE
    /\ expandsingles = 0
    /\ autoreduce = FALSE
    /\ filtering = FALSE
    /\ splittogrid = <<>>
    /\ calibrator = 0
    /\ outputfile = FALSE
    /\ pc = "off"
    /\ Locals
    /\ twin = NoTwin

\* -------------------------------------------------------------------- actions
\* lines 49-81
Classify ==
    /\ pc = "classify"
    /\ eligiblelist' = FindEligibles(size, px, invertpixels, method)
    /\ pc' = "found"
    /\ UNCHANGED <<args, px, tracer, outcome, svgcalls, history, twin,
                   reducer, filterer>>

\* line 82: quit() raises SystemExit
Abort ==
    /\ pc = "found"
    /\ NothingToDo(eligiblelist)
    /\ pc' = "exited"
    /\ outcome' = "SystemExit"
    /\ UNCHANGED <<args, px, eligiblelist, tracer, svgcalls, history, twin,
                   reducer, filterer>>

DiagnosticWrite(p, list) ==
    [c \in DOMAIN p |-> IF c \in Range(list) THEN DiagColor ELSE p[c]]

\* lines 84-87
Diagnostic ==
    /\ pc = "found"
    /\ ~NothingToDo(eligiblelist)
    /\ px' = IF diagnostic THEN DiagnosticWrite(px, eligiblelist) ELSE px
    /\ pc' = "split"
    /\ UNCHANGED <<args, eligiblelist, tracer, outcome, svgcalls, history, twin,
                   reducer, filterer>>

\* lines 89-103
SplitToGrid ==
    /\ pc = "split"
    /\ grid' = IF HasGrid(splittogrid)
               THEN BuildGrid(size, splittogrid, eligiblelist) ELSE <<>>
    /\ eligibles' = Range(eligiblelist)
    /\ eligibles0' = Range(eligiblelist)
    /\ masterlines' = <<>>
    /\ direction' = 0
    /\ pc' = "trace"
    /\ UNCHANGED <<args, px, eligiblelist, origin, currentline, outcome,
                   svgcalls, px0, traced, fellback, localmiss, twin,
                   reducer, filterer>>

\* the nearest member of the whole set, whatever the search looks at
GlobalNearest(E, o) == StartOf(Distances(o, RasterSeq(E)))

\* lines 105-135
SeedSearch ==
    /\ pc = "trace"
    /\ LoopGuard(eligibles)
    /\ \E cands \in {SeedCandidates(eligibles, grid, splittogrid, masterlines)} :
          \E order \in Enumerations(cands) :
          \E order2 \in Enumerations(IF cands = {} THEN eligibles ELSE {}) :
          \E r \in {SeedSearchResult(eligibles, grid, splittogrid, masterlines,
                                     order, order2)} :
                /\ origin' = r.origin
                /\ eligibles' = r.eligibles
                /\ grid' = r.grid
                /\ currentline' = r.currentline
                /\ fellback' = (fellback \/ r.fellback)
                /\ localmiss' = (localmiss \/
                                 GlobalNearest(eligibles, r.origin) \notin cands)
                /\ pc' = IF r.error = "" THEN "walk" ELSE "raised"
                /\ outcome' = IF r.error = "" THEN outcome ELSE r.error
    /\ UNCHANGED <<args, px, eligiblelist, masterlines, direction, svgcalls,
                   px0, eligibles0, traced, twin, reducer, filterer>>

\* lines 137-156: a neighbour is eligible
Walk ==
    /\ pc = "walk"
    /\ \E r \in {WalkResult(eligibles, grid, splittogrid, currentline, direction)} :
           /\ r.continuing
           /\ eligibles' = r.eligibles
           /\ grid' = r.grid
           /\ currentline' = r.currentline
           /\ direction' = r.direction
           /\ pc' = IF r.error = "" THEN "walk" ELSE "raised"
           /\ outcome' = IF r.error = "" THEN outcome ELSE r.error
    /\ UNCHANGED <<args, px, eligiblelist, masterlines, origin, svgcalls,
                   history, twin, reducer, filterer>>

FinishLineReset ==
    /\ pc = "walk"
    /\ ~WalkResult(eligibles, grid, splittogrid, currentline, direction).continuing
    /\ masterlines' = Append(masterlines, currentline)
    /\ direction' = 0
    /\ pc' = "trace"
    /\ UNCHANGED <<args, px, eligiblelist, eligibles, grid, origin,
                   currentline, outcome, svgcalls, history, twin,
                   reducer, filterer>>

\* lines 157-159: no neighbour is eligible
FinishLine ==
    /\ pc = "walk"
    /\ ~WalkResult(eligibles, grid, splittogrid, currentline, direction).continuing
    /\ masterlines' = Append(masterlines, currentline)
    /\ pc' = "trace"
    /\ UNCHANGED <<args, px, eligiblelist, eligibles, grid, direction, origin,
                   currentline, outcome, svgcalls, history, twin,
                   reducer, filterer>>

\* lines 105, 160-161: the master loop ends
TraceDone ==
    /\ pc = "trace"
    /\ ~LoopGuard(eligibles)
    /\ traced' = masterlines
    /\ pc' = "expand"
    /\ UNCHANGED <<args, px, eligiblelist, tracer, outcome, svgcalls,
                   px0, eligibles0, fellback, localmiss, twin,
                   reducer, filterer>>

\* lines 165-171
ExpandSingles ==
    /\ pc = "expand"
    /\ masterlines' = IF expandsingles # 0
                      THEN [i \in DOMAIN masterlines |->
                               ExpandLine(masterlines[i], expandsingles)]
                      ELSE masterlines
    /\ pc' = "reduce"
    /\ UNCHANGED <<args, px, eligiblelist, eligibles, grid, direction, origin,
                   currentline, outcome, svgcalls, history, twin,
                   reducer, filterer>>

\* lines 172-190
AutoReduce ==
    /\ pc = "reduce"
    /\ masterlines' = IF autoreduce
                      THEN [i \in DOMAIN masterlines |-> ReduceLine(masterlines[i])]
                      ELSE masterlines
    /\ pc' = "filter"
    /\ UNCHANGED <<args, px, eligiblelist, eligibles, grid, direction, origin,
                   currentline, outcome, svgcalls, history, twin,
                   reducer, filterer>>

\* lines 192-196
Filtering ==
    /\ pc = "filter"
    /\ masterlines' = IF filtering
                      THEN [i \in DOMAIN masterlines |->
                               filter(masterlines[i], DefaultMass,
                                      DefaultInterpoints, DefaultFriction)]
                      ELSE masterlines
    /\ pc' = "calibrate"
    /\ UNCHANGED <<args, px, eligiblelist, eligibles, grid, direction, origin,
                   currentline, outcome, svgcalls, history, twin,
                   reducer, filterer>>

CalibratePrepend ==
    /\ pc = "calibrate"
    /\ masterlines' = IF calibrator # 0
                      THEN << << <<size[1], size[2]>>,
                                 <<size[1] - calibrator, size[2] - calibrator>> >> >>
                           \o masterlines
                      ELSE masterlines
    /\ pc' = "export"
    /\ UNCHANGED <<args, px, eligiblelist, eligibles, grid, direction, origin,
                   currentline, outcome, svgcalls, history, twin,
                   reducer, filterer>>

\* lines 198-201
Calibrate ==
    /\ pc = "calibrate"
    /\ masterlines' = IF calibrator # 0
                      THEN Append(masterlines,
                                  << <<size[1], size[2]>>,
                                     <<size[1] - calibrator, size[2] - calibrator>> >>)
                      ELSE masterlines
    /\ pc' = "export"
    /\ UNCHANGED <<args, px, eligiblelist, eligibles, grid, direction, origin,
                   currentline, outcome, svgcalls, history, twin,
                   reducer, filterer>>

\* lines 203-206
Export ==
    /\ pc = "export"
    /\ svgcalls' = IF outputfile THEN Append(svgcalls, masterlines) ELSE svgcalls
    /\ outcome' = "returned"
    /\ pc' = "done"
    /\ UNCHANGED <<args, px, eligiblelist, tracer, history, twin,
                   reducer, filterer>>

Next ==
    \/ Classify
    \/ Abort
    \/ Diagnostic
    \/ SplitToGrid
    \/ SeedSearch
    \/ Walk
    \/ FinishLine
    \/ TraceDone
    \/ ExpandSingles
    \/ AutoReduce
    \/ Filtering
    \/ Calibrate
    \/ Export

Spec == Init /\ [][Next]_vars

\* the run is sequential and never waits: a step that can be taken is taken
FairSpec == FairInit /\ [][Next]_vars /\ WF_vars(Next)

PipelineSpec == PipelineInit /\ [][Next]_vars

\* ------------------------------------------------------ the second tracer run
\* lines 89-103, from the eligible list of the first run
TwinStart ==
    /\ pc = "expand"
    /\ twin.pc = "wait"
    /\ twin' = [pc |-> "trace",
                splittogrid |-> twin.splittogrid,
                eligibles |-> Range(eligiblelist),
                grid |-> IF HasGrid(twin.splittogrid)
                         THEN BuildGrid(size, twin.splittogrid, eligiblelist)
                         ELSE <<>>,
                masterlines |-> <<>>,
                direction |-> 0,
                currentline |-> <<>>]
    /\ UNCHANGED <<args, px, pc, eligiblelist, tracer, outcome, svgcalls,
                   history, reducer, filterer>>

\* lines 105-135
TwinSeedSearch ==
    /\ twin.pc = "trace"
    /\ LoopGuard(twin.eligibles)
    /\ \E cands \in {SeedCandidates(twin.eligibles, twin.grid, twin.splittogrid,
                                       twin.masterlines)} :
          \E order \in Enumerations(cands) :
          \E order2 \in Enumerations(IF cands = {} THEN twin.eligibles ELSE {}) :
          \E r \in {SeedSearchResult(twin.eligibles, twin.grid, twin.splittogrid,
                                     twin.masterlines, order, order2)} :
                twin' = [twin EXCEPT !.eligibles = r.eligibles,
                                     !.grid = r.grid,
                                     !.currentline = r.currentline,
                                     !.pc = IF r.error = "" THEN "walk" ELSE "raised"]
    /\ UNCHANGED <<args, px, pc, eligiblelist, tracer, outcome, svgcalls,
                   history, reducer, filterer>>

\* lines 137-156
TwinWalk ==
    /\ twin.pc = "walk"
    /\ \E r \in {WalkResult(twin.eligibles, twin.grid, twin.splittogrid,
                               twin.currentline, twin.direction)} :
           /\ r.continuing
           /\ twin' = [twin EXCEPT !.eligibles = r.eligibles,
                                   !.grid = r.grid,
                                   !.currentline = r.currentline,
                                   !.direction = r.direction,
                                   !.pc = IF r.error = "" THEN "walk" ELSE "raised"]
    /\ UNCHANGED <<args, px, pc, eligiblelist, tracer, outcome, svgcalls,
                   history, reducer, filterer>>

\* lines 157-159
TwinFinishLine ==
    /\ twin.pc = "walk"
    /\ ~WalkResult(twin.eligibles, twin.grid, twin.splittogrid,
                   twin.currentline, twin.direction).continuing
    /\ twin' = [twin EXCEPT !.masterlines = Append(@, twin.currentline),
                            !.pc = "trace"]
    /\ UNCHANGED <<args, px, pc, eligiblelist, tracer, outcome, svgcalls,
                   history, reducer, filterer>>

\* lines 105, 160-161
TwinDone ==
    /\ twin.pc = "trace"
    /\ ~LoopGuard(twin.eligibles)
    /\ twin' = [twin EXCEPT !.pc = "done"]
    /\ UNCHANGED <<args, px, pc, eligiblelist, tracer, outcome, svgcalls,
                   history, reducer, filterer>>

PairNext ==
    \/ Classify
    \/ Abort
    \/ Diagnostic
    \/ SplitToGrid
    \/ SeedSearch
    \/ Walk
    \/ FinishLine
    \/ TraceDone
    \/ TwinStart
    \/ TwinSeedSearch
    \/ TwinWalk
    \/ TwinFinishLine
    \/ TwinDone

PairSpec == PairInit /\ [][PairNext]_vars

\* ------------------------------------------ the auto-reduction pass on its own
RPoints == (0..RMaxX) \X (0..RMaxY)

Polylines(points, maxlen) == UNION {[1..n -> points] : n \in 0..maxlen}

ReduceInit ==
    /\ IdleMain
    /\ IdleFilter
    /\ rline \in Polylines(RPoints, RMaxLen)
    /\ rhist = <<rline>>

\* lines 175-190 for one line; rhist keeps the line as it was before each pass
ReducePass ==
    /\ Len(rhist) \in 1..2
    /\ rline' = ReduceLine(rline)
    /\ rhist' = Append(rhist, rline')
    /\ UNCHANGED <<args, px, pc, eligiblelist, tracer, outcome, svgcalls,
                   history, twin, filterer>>

ReduceNext == ReducePass

ReduceSpec == ReduceInit /\ [][ReduceNext]_vars

\* ------------------------------------------------------- filter() on its own
FPoints == (0..FMaxCoord) \X (0..FMaxCoord)

FilterInit ==
    /\ IdleMain
    /\ IdleReducer
    /\ POINTSLIST \in Polylines(FPoints, FMaxLen)
    /\ MASS \in {0, 1, DefaultMass}
    /\ INTERPOINTS \in {0, 1, DefaultInterpoints}
    /\ FRICTION \in {DefaultFriction, <<1, 1>>}
    /\ filtered = <<>>
    /\ fpc = "call"
    /\ fin0 = POINTSLIST

\* lines 211-245
FilterReturn ==
    /\ fpc = "call"
    /\ FilterRaises(POINTSLIST, MASS, INTERPOINTS) = ""
    /\ filtered' = filter(POINTSLIST, MASS, INTERPOINTS, FRICTION)
    /\ fpc' = "returned"
    /\ UNCHANGED <<args, px, pc, eligiblelist, tracer, outcome, svgcalls,
                   history, twin, reducer, POINTSLIST, MASS, INTERPOINTS,
                   FRICTION, fin0>>

\* line 221 on an empty list, lines 230-231 with MASS = 0
FilterRaise ==
    /\ fpc = "call"
    /\ FilterRaises(POINTSLIST, MASS, INTERPOINTS) # ""
    /\ fpc' = FilterRaises(POINTSLIST, MASS, INTERPOINTS)
    /\ UNCHANGED <<args, px, pc, eligiblelist, tracer, outcome, svgcalls,
                   history, twin, reducer, POINTSLIST, MASS, INTERPOINTS,
                   FRICTION, filtered, fin0>>

FilterNext == FilterReturn \/ FilterRaise

FilterSpec == FilterInit /\ [][FilterNext]_vars

\* ==================================================================== claims
\* what the classifier is to find, stated on the caller's image
Proxy(v) == IF Len(v) = 1 THEN v[1] ELSE (v[1] + v[2] + v[3]) \div 3

IsEligible(c) == (Proxy(px0[c]) >= 128) # invertpixels

Neighbours4(c) ==
    {<<c[1] - 1, c[2]>>, <<c[1] + 1, c[2]>>, <<c[1], c[2] - 1>>, <<c[1], c[2] + 1>>}

Interior ==
    {c \in Cells(size) : /\ 1 <= c[1] /\ c[1] <= size[1] - 2
                         /\ 1 <= c[2] /\ c[2] <= size[2] - 2}

FillSet == {c \in Cells(size) : IsEligible(c)}

OutlineSet ==
    {c \in Interior : IsEligible(c) /\ \E n \in Neighbours4(c) : ~IsEligible(n)}

BoundarySet ==
    {c \in Interior : ~IsEligible(c) /\ \E n \in Neighbours4(c) : IsEligible(n)}

Qualifying ==
    (IF "f" \in method THEN FillSet ELSE {})
    \cup (IF "o" \in method THEN OutlineSet ELSE {})
    \cup (IF "b" \in method THEN BoundarySet ELSE {})

OnlyCentreBright ==
    /\ size = <<3, 3>>
    /\ \A c \in Cells(size) : (Proxy(px0[c]) >= 128) <=> (c = <<1, 1>>)

\* C1 (Exhaustiveness): when the tracer is done, the lines it has produced
\* hold, between them, as many points as the initial eligible set has
\* distinct coordinates - under every method combination, polarity and grid.
Exhaustiveness ==
    pc = "expand" => SumLen(masterlines) = Cardinality(Range(eligiblelist))

ExhaustivenessWitness ==
    /\ pc = "expand"
    /\ {"f", "o"} \subseteq method
    /\ Len(eligiblelist) > Cardinality(Range(eligiblelist))
    /\ HasGrid(splittogrid)
    /\ Len(masterlines) >= 2
    /\ \E i \in DOMAIN masterlines : Len(masterlines[i]) >= 2

\* C2 (Termination): a run that found eligible pixels reaches the end of the
\* tracer with the eligible set empty, and every seed search and every
\* accepted walking step takes exactly one coordinate out of the eligible set.
Termination ==
    /\ (pc = "found" /\ eligiblelist # <<>>) ~> (pc = "expand" /\ eligibles = {})
    /\ [][pc' = "walk" =>
            /\ eligibles' \subseteq eligibles
            /\ Cardinality(eligibles') = Cardinality(eligibles) - 1]_vars

TerminationWitness ==
    /\ pc = "expand"
    /\ eligibles = {}
    /\ Cardinality(eligibles0) >= 4
    /\ Len(masterlines) >= 2
    /\ \E i \in DOMAIN masterlines : Len(masterlines[i]) >= 2

\* C3 (Determinism): a second tracer run over the same eligible set with the
\* same grid setting, starting from heading 0, yields the same sequence of
\* lines, whatever the order in which either run enumerates its sets.
Determinism ==
    (twin.pc = "done" /\ twin.splittogrid = splittogrid)
        => twin.masterlines = traced

DeterminismWitness ==
    /\ twin.pc = "done"
    /\ twin.splittogrid = splittogrid
    /\ HasGrid(splittogrid)
    /\ Cardinality(eligibles0) >= 3
    /\ Len(traced) >= 2
    /\ twin.masterlines = traced

IndexEquivalenceNoFallback ==
    (twin.pc = "done" /\ HasGrid(splittogrid) /\ twin.splittogrid = <<>>
     /\ ~fellback)
        => twin.masterlines = traced

\* C5 as amended: if at every seed search of the indexed run the bucket of
\* the origin held the member of the eligible set nearest to the origin, the
\* indexed run and the run without a grid yield the same sequence of lines.
IndexEquivalence ==
    (twin.pc = "done" /\ HasGrid(splittogrid) /\ twin.splittogrid = <<>>
     /\ ~localmiss)
        => twin.masterlines = traced

IndexEquivalenceWitness ==
    /\ twin.pc = "done"
    /\ HasGrid(splittogrid)
    /\ twin.splittogrid = <<>>
    /\ ~localmiss
    /\ Len(traced) >= 2
    /\ Cardinality({BucketOf(splittogrid, c) : c \in eligibles0}) >= 2
    /\ twin.masterlines = traced

EightConnected(line) ==
    \A i \in 1..(Len(line) - 1) :
        <<line[i + 1][1] - line[i][1], line[i + 1][2] - line[i][2]>>
            \in Range(DIRECTIONS)

\* C6 as claimed (Reduction idempotence): for any polyline, a second
\* reduction pass deletes nothing more than the first.
ReductionIdempotentAny ==
    Len(rhist) = 3 => rhist[3] = rhist[2]

\* C6 as amended: for any polyline whose consecutive points are 8-connected
\* neighbours, as in every traced line, a second reduction pass deletes
\* nothing more than the first.
ReductionIdempotent ==
    (Len(rhist) = 3 /\ EightConnected(rhist[1])) => rhist[3] = rhist[2]

ReductionIdempotentWitness ==
    /\ Len(rhist) = 3
    /\ EightConnected(rhist[1])
    /\ Len(rhist[1]) >= 4
    /\ Len(rhist[2]) = 3
    /\ rhist[3] = rhist[2]

SourceImageUnchanged == px = px0

\* C9 (Eligibility modes): the classifier collects exactly the coordinates the
\* requested modes describe - fill: every eligible coordinate; outline: the
\* interior eligible coordinates with a non-eligible 4-neighbour; boundary:
\* the interior non-eligible coordinates with an eligible 4-neighbour - so
\* that outline and boundary never yield a coordinate of the outermost ring
\* and a 3x3 image with only the centre bright gives {(1,1)} under 'o'.
EligibilityModes ==
    pc # "classify" =>
        /\ Range(eligiblelist) = Qualifying
        /\ (method = {"f"} => Range(eligiblelist) = FillSet)
        /\ (method = {"o"} => Range(eligiblelist) = OutlineSet)
        /\ (method = {"b"} => Range(eligiblelist) = BoundarySet)
        /\ ("f" \notin method => Range(eligiblelist) \subseteq Interior)
        /\ ((OnlyCentreBright /\ method = {"o"} /\ ~invertpixels)
                => Range(eligiblelist) = {<<1, 1>>})

EligibilityModesWitness ==
    /\ pc = "found"
    /\ OnlyCentreBright
    /\ method = {"o"}
    /\ ~invertpixels
    /\ eligiblelist = <<<<1, 1>>>>

\* C10 (Single-point expansion): right after the expansion step, with a
\* non-zero delta d every traced line [(x,y)] stands, at its position, as
\* [(x-d,y),(x+d,y)], every longer line is as traced and no line of length 1
\* is left; with a zero delta all lines are as traced.
SinglePointExpansion ==
    pc = "reduce" =>
        /\ Len(masterlines) = Len(traced)
        /\ \A i \in DOMAIN traced :
              IF expandsingles # 0 /\ Len(traced[i]) = 1
              THEN masterlines[i] =
                      << <<traced[i][1][1] - expandsingles, traced[i][1][2]>>,
                         <<traced[i][1][1] + expandsingles, traced[i][1][2]>> >>
              ELSE masterlines[i] = traced[i]
        /\ (expandsingles # 0 =>
                \A i \in DOMAIN masterlines : Len(masterlines[i]) # 1)

SinglePointExpansionWitness ==
    /\ pc = "reduce"
    /\ expandsingles # 0
    /\ \E i \in DOMAIN traced : Len(traced[i]) = 1 /\ Len(masterlines[i]) = 2
    /\ \E i \in DOMAIN traced : Len(traced[i]) >= 2

\* the position of a stage in the text of vectorize()
StageRank(p) ==
    CASE p = "classify" -> 1
      [] p = "found" -> 2
      [] p = "split" -> 3
      [] p \in {"trace", "walk"} -> 4
      [] p = "expand" -> 5
      [] p = "reduce" -> 6
      [] p = "filter" -> 7
      [] p = "calibrate" -> 8
      [] p = "export" -> 9
      [] p = "done" -> 10
      [] OTHER -> 11

CalibratorLine ==
    << <<size[1], size[2]>>, <<size[1] - calibrator, size[2] - calibrator>> >>

\* a traced line after the passes that are switched on, each applied once
PostProcessed(line) ==
    LET e == IF expandsingles # 0 THEN ExpandLine(line, expandsingles) ELSE line
        r == IF autoreduce THEN ReduceLine(e) ELSE e
    IN  IF filtering
        THEN filter(r, DefaultMass, DefaultInterpoints, DefaultFriction)
        ELSE r

\* what one step may do to the stage and to masterlines
StageStep ==
    /\ StageRank(pc') >= StageRank(pc)
    /\ (StageRank(pc) \in 4..9 /\ StageRank(pc') # StageRank(pc))
          => StageRank(pc') = StageRank(pc) + 1
    /\ (pc \in {"trace", "walk"} /\ masterlines' # masterlines)
          => masterlines' = Append(masterlines, currentline)
    /\ pc = "expand" => masterlines' =
          [i \in DOMAIN traced |->
              IF expandsingles # 0 THEN ExpandLine(traced[i], expandsingles)
              ELSE traced[i]]
    /\ pc = "reduce" => masterlines' =
          [i \in DOMAIN masterlines |->
              IF autoreduce THEN ReduceLine(masterlines[i]) ELSE masterlines[i]]
    /\ pc = "filter" => masterlines' =
          [i \in DOMAIN masterlines |->
              IF filtering
              THEN filter(masterlines[i], DefaultMass, DefaultInterpoints,
                          DefaultFriction)
              ELSE masterlines[i]]
    /\ pc = "calibrate" => SubSeq(masterlines', 1, Len(masterlines)) = masterlines
    /\ pc \in {"export", "done"} => masterlines' = masterlines

\* masterlines once the calibration stage is over
Calibrated ==
    /\ SubSeq(masterlines, 1, Len(traced)) =
          [i \in DOMAIN traced |-> PostProcessed(traced[i])]
    /\ IF calibrator # 0
       THEN /\ Len(masterlines) = Len(traced) + 1
            /\ Last(masterlines) = CalibratorLine
            /\ \A i \in DOMAIN traced : masterlines[i] # CalibratorLine
       ELSE Len(masterlines) = Len(traced)

\* C11 (Stage ordering and calibration): the stages follow one another in the
\* order tracing, expansion, reduction, smoothing, calibration, export and
\* none is entered twice; with a non-zero calibrator c the lines that are
\* exported and returned are the traced lines, each post-processed once, with
\* the one line [(W,H),(W-c,H-c)] after them, which no pass has touched and
\* whose points were never a seed-search origin; with calibrator 0 they are
\* the post-processed traced lines alone.
StageOrderAndCalibration ==
    /\ [][StageStep]_vars
    /\ [](pc \in {"export", "done"} => Calibrated)
    /\ [](pc = "done" => outcome = "returned")
    /\ [](pc \notin {"classify", "found", "split", "exited"}
            => origin \in Cells(size))

StageOrderAndCalibrationWitness ==
    /\ pc = "done"
    /\ outcome = "returned"
    /\ calibrator # 0
    /\ expandsingles # 0 /\ autoreduce /\ filtering
    /\ Len(traced) >= 2
    /\ \E i \in DOMAIN traced : Len(traced[i]) >= 3
    /\ Len(masterlines) = Len(traced) + 1
    /\ Last(masterlines) = CalibratorLine

\* the lines of the tracer: the finished ones and, while one is being walked,
\* the current one
TracerLines == IF pc = "walk" THEN Append(masterlines, currentline) ELSE masterlines

PointsOf(ls) == UNION {Range(ls[i]) : i \in DOMAIN ls}

ConsumedOnce ==
    /\ eligibles \cap PointsOf(TracerLines) = {}
    /\ eligibles \cup PointsOf(TracerLines) = eligibles0
    /\ SumLen(TracerLines) = Cardinality(PointsOf(TracerLines))

\* a step that puts a point on a line takes that point, and nothing else, out
\* of the eligible set; no other step of the tracer touches the set
ConsumeStep ==
    pc \in {"trace", "walk"} =>
        IF pc' = "walk"
        THEN /\ Last(currentline') \in eligibles
             /\ eligibles' = eligibles \ {Last(currentline')}
        ELSE eligibles' = eligibles

\* C12 (Consume-once): in every tracer state the eligible set and the points
\* held by the finished lines and the current line are disjoint, together
\* they are the initial eligible set, no coordinate is held twice, and a
\* coordinate leaves the eligible set exactly in the step that appends it.
ConsumeOnce ==
    /\ [](pc \in {"trace", "walk", "expand"} => ConsumedOnce)
    /\ [][ConsumeStep]_vars

ConsumeOnceWitness ==
    /\ pc = "walk"
    /\ Len(masterlines) >= 1
    /\ Len(currentline) >= 2
    /\ eligibles # {}
    /\ ConsumedOnce

\* the bucket (x div gx, y div gy), addressed as grid[row][column]
HomeBucket(c) == <<c[2] \div splittogrid[2], c[1] \div splittogrid[1]>>

IndexConsistent ==
    /\ UNION {grid[k] : k \in DOMAIN grid} = eligibles
    /\ \A k \in DOMAIN grid : \A c \in grid[k] : k = HomeBucket(c)
    /\ \A c \in eligibles0 : HomeBucket(c) \in DOMAIN grid
    /\ HomeBucket(OriginOf(masterlines)) \in DOMAIN grid
    /\ pc # "raised"
    /\ outcome \notin {"IndexError", "KeyError"}

\* C13 (Index consistency): with the grid enabled, from the moment it is
\* built and after every removal of the seed search and of the walk, the
\* buckets together hold exactly the eligible set, every coordinate lies in
\* the bucket (x div gx, y div gy) and nowhere else, and every bucket that is
\* looked up, for a coordinate or for an origin, exists.
IndexConsistency ==
    (HasGrid(splittogrid) /\ pc \notin {"classify", "found", "split", "exited"})
        => IndexConsistent

IndexConsistencyWitness ==
    /\ HasGrid(splittogrid)
    /\ splittogrid[1] # splittogrid[2]
    /\ pc = "walk"
    /\ Len(masterlines) >= 1
    /\ Len(currentline) >= 2
    /\ Cardinality({k \in DOMAIN grid : grid[k] # {}}) >= 2
    /\ Cardinality({HomeBucket(c) : c \in eligibles0 \ eligibles}) >= 2
    /\ IndexConsistent

Manhattan(a, b) == Abs(a[1] - b[1]) + Abs(a[2] - b[2])

\* c is nearer to o than d is, or as near with a smaller x, or as near with
\* the same x and a smaller y
Before(c, d, o) ==
    \/ Manhattan(c, o) < Manhattan(d, o)
    \/ Manhattan(c, o) = Manhattan(d, o) /\ c[1] < d[1]
    \/ Manhattan(c, o) = Manhattan(d, o) /\ c[1] = d[1] /\ c[2] < d[2]

NearestIn(S, o) == CHOOSE c \in S : \A d \in S \ {c} : Before(c, d, o)

\* the origin a seed search uses, told from the finished lines
ExpectedOrigin ==
    IF masterlines = <<>> THEN <<0, 0>> ELSE Last(Last(masterlines))

IsSeedSearchStep == pc = "trace" /\ pc' \in {"walk", "raised"}

PlainSeedStep ==
    (IsSeedSearchStep /\ ~HasGrid(splittogrid)) =>
        /\ pc' = "walk"
        /\ origin' = ExpectedOrigin
        /\ currentline' = <<NearestIn(eligibles, ExpectedOrigin)>>
        /\ eligibles' = eligibles \ {NearestIn(eligibles, ExpectedOrigin)}
        /\ masterlines' = masterlines

\* C14 (Seed selection without index): without a grid, every seed search
\* takes (0,0) as origin for the first line and the last point of the line
\* finished last otherwise, picks the eligible coordinate of least Manhattan
\* distance to it - the smallest x, then the smallest y among equals - takes
\* it out of the eligible set and starts the new line with it.
SeedSelection == [][PlainSeedStep]_vars

SeedSelectionWitness ==
    /\ ~HasGrid(splittogrid)
    /\ pc = "walk"
    /\ Len(currentline) = 1
    /\ Len(masterlines) >= 1
    /\ origin = Last(Last(masterlines))
    /\ origin # <<0, 0>>
    /\ currentline[1] \notin eligibles
    /\ \E d \in eligibles :
          /\ Manhattan(d, origin) = Manhattan(currentline[1], origin)
          /\ d[1] = currentline[1][1]
          /\ d[2] > currentline[1][2]

\* the compass, with y growing downwards as in an image
Compass ==
    [E |-> <<1, 0>>, NE |-> <<1, -1>>, N |-> <<0, -1>>, NW |-> <<-1, -1>>,
     W |-> <<-1, 0>>, SW |-> <<-1, 1>>, S |-> <<0, 1>>, SE |-> <<1, 1>>]

OffsetTable ==
    <<Compass.E, Compass.NE, Compass.N, Compass.NW,
      Compass.W, Compass.SW, Compass.S, Compass.SE>>

NeighbourAt(p, k) == <<p[1] + OffsetTable[k + 1][1], p[2] + OffsetTable[k + 1][2]>>

\* the direction index of a step from p to q
DirIndex(p, q) == CHOOSE k \in 0..7 : NeighbourAt(p, k) = q

\* how far round from the heading the examination gets before it finds an
\* eligible neighbour
HitsFrom(p, heading) ==
    {j \in 0..7 : NeighbourAt(p, (heading + j) % 8) \in eligibles}

FirstOf(S) == CHOOSE j \in S : \A i \in S : j <= i

WalkingStep ==
    pc = "walk" =>
        LET cur == Last(currentline)
            hits == HitsFrom(cur, direction)
        IN  IF hits = {}
            THEN /\ pc' = "trace"
                 /\ masterlines' = Append(masterlines, currentline)
                 /\ eligibles' = eligibles
                 /\ direction' = direction
            ELSE LET k == (direction + FirstOf(hits)) % 8
                 IN  /\ pc' = "walk"
                     /\ currentline' = Append(currentline, NeighbourAt(cur, k))
                     /\ eligibles' = eligibles \ {NeighbourAt(cur, k)}
                     /\ direction' = (k + 4) % 8
                     /\ masterlines' = masterlines

\* C15 (Walking step): each walking step examines the 8 neighbours of the
\* last point of the current line in the order heading, heading+1, ...,
\* heading+7 (mod 8) over E, NE, N, NW, W, SW, S, SE; the first eligible
\* one, at direction index k, is taken out of the eligible set and appended,
\* and the heading becomes (k+4) mod 8; the line is finished and appended to
\* masterlines exactly when none of the 8 is eligible.
WalkingStepRule == [][WalkingStep]_vars

WalkingStepRuleWitness ==
    /\ pc = "walk"
    /\ Len(currentline) >= 3
    /\ LET n == Len(currentline)
           kprev == DirIndex(currentline[n - 2], currentline[n - 1])
           k == DirIndex(currentline[n - 1], currentline[n])
       IN  /\ k < (kprev + 4) % 8
           /\ direction = (k + 4) % 8
    /\ HitsFrom(Last(currentline), direction) # {}
    /\ 0 \notin HitsFrom(Last(currentline), direction)

\* the heading the last accepted step of the lines ls has left behind: 0 if
\* no step was accepted yet
LastHeading(ls) ==
    LET walked == {i \in DOMAIN ls : Len(ls[i]) >= 2}
    IN  IF walked = {} THEN 0
        ELSE LET m == CHOOSE i \in walked : \A j \in walked : j <= i
                 n == Len(ls[m])
             IN  (DirIndex(ls[m][n - 1], ls[m][n]) + 4) % 8

HeadingStep ==
    /\ pc = "trace" => direction' = direction
    /\ (pc = "walk" /\ pc' = "trace") => direction' = direction
    /\ direction' # direction =>
          /\ pc = "walk" /\ pc' = "walk"
          /\ Len(currentline') = Len(currentline) + 1

\* C16 (Heading persistence): the heading is 0 when the tracer starts and is
\* always one of 0..7; neither the seed search nor the finishing of a line
\* changes it, only an accepted walking step does; so the first examination
\* of every new line starts from the heading left by the last accepted step
\* of the lines before it, or from 0 if there was none.
HeadingPersistence ==
    /\ [](direction \in 0..7)
    /\ []((pc = "trace" /\ masterlines = <<>>) => direction = 0)
    /\ [](pc \in {"trace", "walk"} => direction = LastHeading(TracerLines))
    /\ [][HeadingStep]_vars

HeadingPersistenceWitness ==
    /\ pc = "walk"
    /\ Len(currentline) = 1
    /\ Len(masterlines) >= 2
    /\ Len(Last(masterlines)) = 1
    /\ direction # 0
    /\ direction = LastHeading(masterlines)
    /\ HitsFrom(Last(currentline), direction) # {}

\* the eligible coordinates that share the bucket of o
BucketMates(o) == {c \in eligibles : HomeBucket(c) = HomeBucket(o)}

IndexedSeed(o) ==
    IF BucketMates(o) # {} THEN NearestIn(BucketMates(o), o)
    ELSE NearestIn(eligibles, o)

IndexedSeedStep ==
    /\ (pc = "trace" /\ eligibles # {}) => pc' = "walk"
    /\ (IsSeedSearchStep /\ HasGrid(splittogrid)) =>
          /\ pc' = "walk"
          /\ outcome' = outcome
          /\ origin' = ExpectedOrigin
          /\ currentline' = <<IndexedSeed(ExpectedOrigin)>>
          /\ eligibles' = eligibles \ {IndexedSeed(ExpectedOrigin)}
          /\ fellback' = (fellback \/ BucketMates(ExpectedOrigin) = {})

\* C17 (Indexed seed search and fallback): with the grid enabled, a seed
\* search whose origin's bucket holds eligible coordinates takes the nearest
\* of them (Manhattan distance, then x, then y), even if another bucket holds
\* a nearer one; a seed search whose origin's bucket is empty takes the
\* nearest of the whole eligible set; an empty bucket raises nothing and
\* never ends the run while coordinates are left.
IndexedSeedSearch == [][IndexedSeedStep]_vars

\* line i of ls was started from its origin's bucket although a coordinate
\* that was still eligible then was nearer
StartedLocalPastNearer(ls, i) ==
    LET o == IF i = 1 THEN <<0, 0>> ELSE Last(ls[i - 1])
        left == eligibles \cup UNION {Range(ls[j]) : j \in i..Len(ls)}
    IN  /\ HomeBucket(ls[i][1]) = HomeBucket(o)
        /\ \E d \in left : Manhattan(d, o) < Manhattan(ls[i][1], o)

IndexedSeedSearchWitness ==
    /\ HasGrid(splittogrid)
    /\ pc = "walk"
    /\ Len(currentline) = 1
    /\ fellback
    /\ HomeBucket(currentline[1]) # HomeBucket(origin)
    /\ currentline[1] = NearestIn(eligibles \cup {currentline[1]}, origin)
    /\ \E i \in DOMAIN masterlines : StartedLocalPastNearer(masterlines, i)

StepIn(line, i) == <<line[i][1] - line[i - 1][1], line[i][2] - line[i - 1][2]>>

StepOut(line, i) == <<line[i + 1][1] - line[i][1], line[i + 1][2] - line[i][2]>>

\* the positions of line that a pass is to keep
Kept(line) ==
    {i \in 1..Len(line) : i = 1 \/ i = Len(line) \/ StepIn(line, i) # StepOut(line, i)}

\* the points of line at the positions K, in their order
Pick(line, K) ==
    [j \in 1..Cardinality(K) |->
        line[CHOOSE i \in K : Cardinality({h \in K : h < i}) = j - 1]]

\* position i of line lies between two steps of the same direction and of
\* different length
UnequalCollinear(line, i) ==
    LET a == StepIn(line, i)
        b == StepOut(line, i)
    IN  /\ a # b
        /\ a[1] * b[2] = a[2] * b[1]
        /\ a[1] * b[1] + a[2] * b[2] > 0

SinglePass(before, after) ==
    /\ after = Pick(before, Kept(before))
    /\ Len(before) <= 2 => after = before
    /\ Len(before) >= 1 => (after[1] = before[1] /\ Last(after) = Last(before))
    /\ Len(before) >= 3 =>
          Cardinality({i \in 2..(Len(before) - 1) : UnequalCollinear(before, i)})
              <= Len(after) - 2

\* C18 (Reduction, single pass): a pass over a polyline of 3 or more points
\* deletes exactly the interior points whose incoming step equals their
\* outgoing step, judged on the polyline as it was, and keeps the others in
\* order; the first and the last point stay, a point between collinear steps
\* of different length stays, and a polyline of up to 2 points is unchanged.
ReductionSinglePass ==
    \A n \in 2..Len(rhist) : SinglePass(rhist[n - 1], rhist[n])

ReductionSinglePassWitness ==
    /\ Len(rhist) >= 2
    /\ Len(rhist[1]) = 4
    /\ Len(rhist[2]) = 3
    /\ StepIn(rhist[1], 2) = StepOut(rhist[1], 2)
    /\ UnequalCollinear(rhist[1], 3)
    /\ rhist[2] = <<rhist[1][1], rhist[1][3], rhist[1][4]>>

\* q is one of the 8 neighbours of p
Adjacent(p, q) ==
    /\ q[1] - p[1] \in -1..1
    /\ q[2] - p[2] \in -1..1
    /\ p # q

WellShaped(line) ==
    /\ line # <<>>
    /\ \A i \in 1..(Len(line) - 1) : Adjacent(line[i], line[i + 1])

\* one line more per round of the master loop: none from the seed search or
\* from an accepted step, exactly the current line when it is finished
GrowthStep ==
    /\ IsSeedSearchStep => (masterlines' = masterlines /\ Len(currentline') = 1)
    /\ (pc = "walk" /\ pc' = "walk") => masterlines' = masterlines
    /\ (pc = "walk" /\ pc' = "trace") =>
          /\ Len(masterlines') = Len(masterlines) + 1
          /\ masterlines' = Append(masterlines, currentline)

\* C19 (Polyline shape): in every tracer state the finished lines and the
\* current line are non-empty and any two consecutive points of a line are
\* distinct 8-connected neighbours; this is still so for the lines as
\* traced, before post-processing; and masterlines grows by exactly one line
\* in each round of seed search and walking.
PolylineShape ==
    /\ [](pc \in {"trace", "walk", "expand"} =>
            \A i \in DOMAIN TracerLines : WellShaped(TracerLines[i]))
    /\ [](\A i \in DOMAIN traced : WellShaped(traced[i]))
    /\ [][GrowthStep]_vars

PolylineShapeWitness ==
    /\ pc = "walk"
    /\ Len(masterlines) >= 2
    /\ \E i \in DOMAIN masterlines : Len(masterlines[i]) = 1
    /\ \E i \in DOMAIN masterlines :
          \E j \in 1..(Len(masterlines[i]) - 1) :
              /\ masterlines[i][j + 1][1] # masterlines[i][j][1]
              /\ masterlines[i][j + 1][2] # masterlines[i][j][2]
    /\ Len(currentline) >= 2
    /\ \A i \in DOMAIN TracerLines : WellShaped(TracerLines[i])

====
